---- MODULE Spec2Model ----
(***************************************************************************)
(* Project_S: the SQLite execution surface (server/mcp_server.py), the     *)
(* SQL agent pipeline (nodes/sql_nodes.py, nodes/workflow.py), the chat    *)
(* driver (server/chainlit_app.py) and the reducers of the data model      *)
(* (nodes/state_schemas.py).                                               *)
(*                                                                         *)
(* Texts are sequences of tokens, so that "begins with" and "contains"     *)
(* are decided by the text an operation builds.  Paths and database names  *)
(* are token sequences as well: get_db_path appends the ".db" token.       *)
(***************************************************************************)
EXTENDS Integers, Sequences, FiniteSets, TLC

VARIABLES
    files,        \* the databases directory: file name -> NoFile or a database
    current_db,   \* mcp_server.current_db: None or the path of the active file
    result,       \* the text the last operation returned
    raised,       \* TRUE when the last operation ended by raising
    call,         \* the last operation called, with its argument
    rt,           \* progress of a create/switch/CREATE TABLE/SELECT sequence
    prevIns,      \* the row the call before the last one inserted, if it did
    open_conns,   \* the sqlite3 connections that are open
    pc,           \* the pipeline: the node to run next
    st,           \* the pipeline: the channel values (TimeManagementState)
    turn,         \* the pipeline: bookkeeping of the running invocation
    proc,         \* chat session -> the server process it started (0: none yet)
    saved,        \* server process -> its current_db while another is addressed
    client,       \* the chat session whose server process current_db shows
    chat_messages, \* the chat driver: the "messages" list of the session
    tasks,        \* the chat driver: message -> where its handler stands
    red           \* the reducers: the arguments of a call and what it left

surfaceVars == <<files, current_db, result, raised, call, rt, prevIns, open_conns>>
flowVars == <<pc, st, turn>>
sessVars == <<proc, saved, client>>
driverVars == <<chat_messages, tasks>>
reducerVars == <<red>>
vars == <<files, current_db, result, raised, call, rt, prevIns, open_conns, pc, st, turn,
          proc, saved, client, chat_messages, tasks, red>>

-----------------------------------------------------------------------------
(* Bounds *)

MaxRows == 2
MaxTurns == 2
MaxSessions == 2
MaxMessages == 2
MaxToolCalls == 2
MaxRecords == 2

-----------------------------------------------------------------------------
(* Values *)

\* Python's None where a path is expected: the empty path
None == <<>>

\* a table that was not created, and a table holding rows
NoTable == [made |-> FALSE, rows |-> <<>>]
Table(rows) == [made |-> TRUE, rows |-> rows]

DATABASES_DIR == "./databases"

DbNames == {<<"t">>, <<"u">>}

\* a database name that holds the characters ".db" in its middle: "t.dbs"
DottedName == <<"t", ".db", "s">>
AllNames == DbNames \cup {DottedName}
Tables == {"a"}
Vals == {1, 2}

Range(s) == {s[i] : i \in 1..Len(s)}

get_db_path(db_name) == <<DATABASES_DIR>> \o db_name \o <<".db">>

\* os.path.basename of a path built by get_db_path
basename(db_path) == Tail(db_path)

RemoveDb(s) == SelectSeq(s, LAMBDA tok : tok # ".db")

get_db_name_from_path(db_path) == RemoveDb(basename(db_path))

FileNames == {basename(get_db_path(n)) : n \in AllNames}

\* the tables of a database file that was never written
NoTables == [x \in Tables |-> NoTable]

\* a file that is not in the directory, and a database file created by
\* sqlite3.connect and never written
NoFile == [there |-> FALSE, tables |-> NoTables]
EmptyDb == [there |-> TRUE, tables |-> NoTables]

\* a test that finds every file
exists_always(db_file) == TRUE

\* os.path.exists(db_file)
exists(db_file) == files[basename(db_file)].there

-----------------------------------------------------------------------------
(* SQL statements and what sqlite3 does with them *)

Stmt(kw, tbl, val) == [kw |-> kw, tbl |-> tbl, val |-> val]

Statements ==
    {Stmt(kw, x, 0) : kw \in {"CREATE", "SELECT", "select", "  select", "WITH", "DELETE", "SELEKT"},
                      x \in Tables}
        \cup {Stmt("INSERT", x, v) : x \in Tables, v \in Vals}

upper(kw) == IF kw = "select" THEN "SELECT" ELSE kw

\* str.strip(): the leading whitespace of the statement is dropped
strip(kw) == IF kw = "  select" THEN "select" ELSE kw

\* conn.execute(sql) on database db: either it raises (ok = FALSE) and
\* changes nothing, or it yields the cursor and the pending changes.
Raise(db, e) == [ok |-> FALSE, db |-> db, rows |-> <<>>, rowcount |-> -1, e |-> e]
Done(db, rows, n) == [ok |-> TRUE, db |-> db, rows |-> rows, rowcount |-> n, e |-> ""]

execute(db, sql) ==
    LET x == sql.tbl
        k == upper(strip(sql.kw))
    IN  CASE k = "SELEKT" -> Raise(db, "near \"SELEKT\": syntax error")
          [] k = "CREATE" ->
                IF db[x] # NoTable THEN Raise(db, "table already exists")
                ELSE Done([db EXCEPT ![x] = Table(<<>>)], <<>>, -1)
          [] db[x] = NoTable -> Raise(db, "no such table")
          [] k = "INSERT" -> Done([db EXCEPT ![x] = Table(Append(@.rows, sql.val))], <<>>, 1)
          [] k = "DELETE" -> Done([db EXCEPT ![x] = Table(<<>>)], <<>>, Len(db[x].rows))
          [] OTHER -> Done(db, db[x].rows, -1)

\* no commit: the rows written are rolled back when the connection closes
\* (a CREATE TABLE outside a transaction is kept)
commit_missing(db, out) == [x \in Tables |-> IF db[x].made THEN db[x] ELSE out.db[x]]

\* conn.commit(): the pending changes of out reach the file
commit(db, out) == out.db

\* str(row) of a one-column row
str_row(v) == "(" \o ToString(v) \o ",)"

\* the test on the statement as it was written
startswith_SELECT_exact(sql) == sql.kw = "SELECT"

\* sql.strip().upper().startswith("SELECT")
startswith_SELECT(sql) == upper(strip(sql.kw)) = "SELECT"

-----------------------------------------------------------------------------
(* The texts the operations return *)

NoDatabaseSelectedText_reworded == <<"Error:", "No active database.">>

NoDatabaseSelectedText ==
    <<"Error:", "No database selected",
      ". Use list_databases() to see available databases, then switch_database() to select one.">>

NotFoundText(db_name) ==
    <<"Error:", "Database '">> \o db_name \o <<".db", "' does not exist in databases/ folder.">>

SwitchedText(db_name) == <<"Switched to database '">> \o db_name \o <<".db", "'.">>

CreatedText(db_name) ==
    <<"Database '">> \o db_name
        \o <<".db", "' created successfully in databases/ folder. Now using: ">> \o db_name

CreateErrorText(e) == <<"Error creating database: ", e>>

ErrorText_bare(e) == <<e>>

ErrorText(e) == <<"Error:", e>>

NoResultsText == <<"Query returned no results.">>

RowsText(rows) == [i \in 1..Len(rows) |-> str_row(rows[i])]

AffectedText(n) == <<"Query executed successfully. Rows affected: ", ToString(n)>>

\* the rows joined without the test for an empty result
query_text_join_only(sql, out) ==
    IF startswith_SELECT(sql) THEN RowsText(out.rows) ELSE AffectedText(out.rowcount)

\* lines 115-124 of query_data: the text for a statement that executed
query_text(sql, out) ==
    IF startswith_SELECT(sql)
    THEN IF out.rows # <<>> THEN RowsText(out.rows) ELSE NoResultsText
    ELSE AffectedText(out.rowcount)

-----------------------------------------------------------------------------
(* list_databases: the listing text *)

\* the names in the order sorted() gives what is left of them
SortedNames == << <<"t">>, DottedName, <<"u">> >>

\* [f.replace(".db", "") for f in os.listdir(DATABASES_DIR) if f.endswith(".db")], sorted
db_files ==
    SelectSeq(SortedNames, LAMBDA n : files[basename(get_db_path(n))].there)

RECURSIVE Bullets(_)
Bullets(names) ==
    IF names = <<>> THEN <<>>
    ELSE <<"  * ">> \o RemoveDb(Head(names) \o <<".db">>) \o Bullets(Tail(names))

current_status ==
    IF current_db # None
    THEN <<"Current database: ">> \o get_db_name_from_path(current_db)
    ELSE <<"No database selected", ". Use switch_database() to select one.">>

ListingText ==
    <<"Available databases (", ToString(Len(db_files)), "):">>
        \o Bullets(db_files) \o current_status

NoDatabasesText == <<"No databases found in the databases folder.">>

-----------------------------------------------------------------------------
(* Bookkeeping of the calls *)

NoName == <<>>
NoStmt == Stmt("", "", 0)

Call(op, name, sql, fault) == [op |-> op, name |-> name, sql |-> sql, fault |-> fault]

NoRt == [n |-> NoName, k |-> 0, had |-> FALSE]

HasRows(f, x) == files[f].tables[x].rows # <<>>

\* the step of the sequence create_database(n), switch_database(n),
\* query_data(CREATE TABLE a), query_data(SELECT * FROM a) that the call c,
\* made with no storage fault, completes; any other call ends the sequence
RtNext(c) ==
    CASE c.fault -> NoRt
      [] c.op = "create_database" ->
            [n |-> c.name, k |-> 1, had |-> HasRows(basename(get_db_path(c.name)), "a")]
      [] c.op = "switch_database" /\ rt.k = 1 /\ rt.n = c.name -> [rt EXCEPT !.k = 2]
      [] c.op = "query_data" /\ rt.k = 2 /\ c.sql = Stmt("CREATE", "a", 0) -> [rt EXCEPT !.k = 3]
      [] c.op = "query_data" /\ rt.k = 3 /\ c.sql = Stmt("SELECT", "a", 0) -> [rt EXCEPT !.k = 4]
      [] OTHER -> NoRt

NoIns == [tbl |-> "", val |-> 0]

\* the row the last call inserted: the call was an INSERT and returned the
\* rows-affected text
LastIns ==
    IF /\ call.op = "query_data"
       /\ call.sql.kw = "INSERT"
       /\ ~raised
       /\ result # <<>>
       /\ Head(result) = "Query executed successfully. Rows affected: "
    THEN [tbl |-> call.sql.tbl, val |-> call.sql.val]
    ELSE NoIns

-----------------------------------------------------------------------------
(* The execution surface: server/mcp_server.py *)

Returns(text) == result' = text /\ raised' = FALSE
Raises == result' = <<>> /\ raised' = TRUE

\* a connection left open
close_skipped(n) == n

\* conn.close(): one connection fewer is open
close(n) == n - 1

\* a connect that creates the file anew whether or not it exists
connect_truncating(db_file) == [files EXCEPT ![basename(db_file)] = EmptyDb]

\* sqlite3.connect(db_file): creates the file when it is missing, opens it
\* as it is when it exists
connect(db_file) ==
    IF exists(db_file) THEN files
    ELSE [files EXCEPT ![basename(db_file)] = EmptyDb]

list_databases(listOk) ==
    /\ call' = Call("list_databases", NoName, NoStmt, ~listOk)
    /\ rt' = RtNext(call')
    /\ prevIns' = LastIns
    /\ UNCHANGED <<files, current_db, open_conns>>
    /\ UNCHANGED <<flowVars, sessVars, driverVars, reducerVars>>
    /\ IF ~listOk THEN Raises
       ELSE IF db_files = <<>> THEN Returns(NoDatabasesText)
       ELSE Returns(ListingText)

\* the pointer assigned before the connection is opened
create_database_assign_first(db_name, openOk) ==
    LET db_file == get_db_path(db_name)
    IN  /\ call' = Call("create_database", db_name, NoStmt, ~openOk)
        /\ rt' = RtNext(call')
        /\ prevIns' = LastIns
        /\ UNCHANGED <<flowVars, sessVars, driverVars, reducerVars>>
        /\ current_db' = db_file
        /\ IF openOk
           THEN /\ files' = connect(db_file)
                /\ open_conns' = close(open_conns + 1)
                /\ Returns(CreatedText(db_name))
           ELSE /\ UNCHANGED <<files, open_conns>>
                /\ Returns(CreateErrorText("unable to open database file"))

create_database(db_name, openOk) ==
    LET db_file == get_db_path(db_name)
    IN  /\ call' = Call("create_database", db_name, NoStmt, ~openOk)
        /\ rt' = RtNext(call')
        /\ prevIns' = LastIns
        /\ UNCHANGED <<flowVars, sessVars, driverVars, reducerVars>>
        /\ IF openOk
           THEN /\ files' = connect(db_file)
                /\ open_conns' = close(open_conns + 1)
                /\ current_db' = db_file
                /\ Returns(CreatedText(db_name))
           ELSE /\ UNCHANGED <<files, current_db, open_conns>>
                /\ Returns(CreateErrorText("unable to open database file"))

\* the pointer assigned before the existence test
switch_database_assign_first(db_name) ==
    LET db_file == get_db_path(db_name)
    IN  /\ call' = Call("switch_database", db_name, NoStmt, FALSE)
        /\ rt' = RtNext(call')
        /\ prevIns' = LastIns
        /\ UNCHANGED <<files, open_conns>>
        /\ UNCHANGED <<flowVars, sessVars, driverVars, reducerVars>>
        /\ current_db' = db_file
        /\ IF ~exists(db_file)
           THEN Returns(NotFoundText(db_name))
           ELSE Returns(SwitchedText(db_name))

switch_database(db_name) ==
    LET db_file == get_db_path(db_name)
    IN  /\ call' = Call("switch_database", db_name, NoStmt, FALSE)
        /\ rt' = RtNext(call')
        /\ prevIns' = LastIns
        /\ UNCHANGED <<files, open_conns>>
        /\ UNCHANGED <<flowVars, sessVars, driverVars, reducerVars>>
        /\ IF ~exists(db_file)
           THEN /\ UNCHANGED current_db
                /\ Returns(NotFoundText(db_name))
           ELSE /\ current_db' = db_file
                /\ Returns(SwitchedText(db_name))

\* the rows a table may hold are capped at MaxRows
Offered(sql) ==
    IF upper(strip(sql.kw)) # "INSERT" \/ current_db = None THEN TRUE
    ELSE Len(files[basename(current_db)].tables[sql.tbl].rows) < MaxRows

\* the statement run on the file of database t, whatever the pointer names
query_data_on_t(sql, openOk) ==
    /\ Offered(sql)
    /\ call' = Call("query_data", NoName, sql, current_db # None /\ ~openOk)
    /\ rt' = RtNext(call')
    /\ prevIns' = LastIns
    /\ UNCHANGED current_db
    /\ UNCHANGED <<flowVars, sessVars, driverVars, reducerVars>>
    /\ IF current_db = None
       THEN /\ UNCHANGED <<files, open_conns>>
            /\ Returns(NoDatabaseSelectedText)
       ELSE IF ~openOk
       THEN /\ UNCHANGED <<files, open_conns>>
            /\ Raises
       ELSE LET f == basename(get_db_path(<<"t">>))
                opened == connect(get_db_path(<<"t">>))
                out == execute(opened[f].tables, sql)
            IN  /\ open_conns' = close(open_conns + 1)
                /\ IF out.ok
                   THEN /\ files' = [opened EXCEPT ![f].tables = commit(@, out)]
                        /\ Returns(query_text(sql, out))
                   ELSE /\ files' = opened
                        /\ Returns(ErrorText(out.e))

query_data(sql, openOk) ==
    /\ Offered(sql)
    /\ call' = Call("query_data", NoName, sql, current_db # None /\ ~openOk)
    /\ rt' = RtNext(call')
    /\ prevIns' = LastIns
    /\ UNCHANGED current_db
    /\ UNCHANGED <<flowVars, sessVars, driverVars, reducerVars>>
    /\ IF current_db = None
       THEN /\ UNCHANGED <<files, open_conns>>
            /\ Returns(NoDatabaseSelectedText)
       ELSE IF ~openOk
       THEN /\ UNCHANGED <<files, open_conns>>
            /\ Raises
       ELSE LET f == basename(current_db)
                opened == connect(current_db)
                out == execute(opened[f].tables, sql)
            IN  /\ open_conns' = close(open_conns + 1)
                /\ IF out.ok
                   THEN /\ files' = [opened EXCEPT ![f].tables = commit(@, out)]
                        /\ Returns(query_text(sql, out))
                   ELSE /\ files' = opened
                        /\ Returns(ErrorText(out.e))

\* the server process is started again: the files stay, the pointer is None
Restart ==
    /\ current_db' = None
    /\ call' = Call("restart", NoName, NoStmt, FALSE)
    /\ rt' = NoRt
    /\ prevIns' = NoIns
    /\ result' = <<>>
    /\ raised' = FALSE
    /\ open_conns' = 0
    /\ UNCHANGED files
    /\ UNCHANGED <<flowVars, sessVars, driverVars, reducerVars>>

InitSurface ==
    /\ files = [f \in FileNames |-> NoFile]
    /\ current_db = None
    /\ result = <<>>
    /\ raised = FALSE
    /\ call = Call("restart", NoName, NoStmt, FALSE)
    /\ rt = NoRt
    /\ prevIns = NoIns
    /\ open_conns = 0

Next ==
    \/ \E listOk \in BOOLEAN : list_databases(listOk)
    \/ \E n \in DbNames, openOk \in BOOLEAN : create_database(n, openOk)
    \/ \E n \in DbNames : switch_database(n)
    \/ \E sql \in Statements, openOk \in BOOLEAN : query_data(sql, openOk)
    \/ Restart

\* the server called with every name of AllNames; the statements are the
\* CREATE TABLE ones
NextNames ==
    \/ \E listOk \in BOOLEAN : list_databases(listOk)
    \/ \E n \in AllNames, openOk \in BOOLEAN : create_database(n, openOk)
    \/ \E n \in AllNames : switch_database(n)
    \/ \E x \in Tables, openOk \in BOOLEAN : query_data(Stmt("CREATE", x, 0), openOk)
    \/ Restart

-----------------------------------------------------------------------------
(* The chat sessions of server/chainlit_app.py and their server processes. *)
(* Each server process has its own current_db; the variable current_db is  *)
(* the one of the process that the session client addresses, the others    *)
(* are kept in saved.                                                      *)

Sessions == 1..MaxSessions

\* a chat start that attaches the session to the server process in use
start_shared(s) ==
    /\ proc[s] = 0
    /\ proc' = [proc EXCEPT ![s] = proc[client]]
    /\ UNCHANGED <<saved, client>>
    /\ UNCHANGED <<surfaceVars, flowVars, driverVars, reducerVars>>

\* on_chat_start: stdio_client(server_params) starts a server process for
\* the session; the module of that process is loaded with current_db = None
start(s) ==
    /\ proc[s] = 0
    /\ proc' = [proc EXCEPT ![s] = s]
    /\ saved' = [saved EXCEPT ![s] = None]
    /\ UNCHANGED client
    /\ UNCHANGED <<surfaceVars, flowVars, driverVars, reducerVars>>

\* the database the next query_data of session s is run on
Target(s) == IF proc[s] = proc[client] THEN current_db ELSE saved[proc[s]]

\* the next tool call comes from session s: session.call_tool reaches the
\* server process of that session
address(s) ==
    /\ proc[s] # 0
    /\ s # client
    /\ client' = s
    /\ saved' = [saved EXCEPT ![proc[client]] = current_db]
    /\ current_db' = Target(s)
    /\ call' = Call("address", NoName, NoStmt, FALSE)
    /\ rt' = NoRt
    /\ prevIns' = NoIns
    /\ result' = <<>>
    /\ raised' = FALSE
    /\ UNCHANGED <<files, proc, open_conns>>
    /\ UNCHANGED <<flowVars, driverVars, reducerVars>>

InitSessions ==
    /\ proc = [s \in Sessions |-> IF s = 1 THEN 1 ELSE 0]
    /\ saved = [p \in Sessions |-> None]
    /\ client = 1

\* the sessions and the tool calls they make; the statements are the
\* CREATE TABLE ones
NextSessions ==
    \/ \E s \in Sessions : start(s)
    \/ \E s \in Sessions : address(s)
    \/ list_databases(TRUE)
    \/ \E n \in DbNames : create_database(n, TRUE)
    \/ \E n \in DbNames : switch_database(n)
    \/ \E x \in Tables : query_data(Stmt("CREATE", x, 0), TRUE)

-----------------------------------------------------------------------------
(* The SQL agent pipeline: nodes/sql_nodes.py and nodes/workflow.py.       *)
(* A node reads the channel values st and returns the values that replace  *)
(* them; a node that raises leaves st as the last node left it.            *)

Absent == "<absent>"

\* what the caller types
Inputs == {"show the rows", "add a row"}

\* what llm.invoke returns to classify_intent_node: text that is no JSON, a
\* JSON array, or a JSON object with some of the three keys
NotJson == [kind |-> "text", intent |-> Absent, sql_query |-> Absent, explanation |-> Absent]
JsonArray == [kind |-> "array", intent |-> Absent, sql_query |-> Absent, explanation |-> Absent]
JsonObject(i, q, e) == [kind |-> "object", intent |-> i, sql_query |-> q, explanation |-> e]

ClassifierOutputs ==
    {NotJson, JsonArray}
        \cup {JsonObject(i, q, e) :
                i \in {Absent, "select", "drop"},
                q \in {Absent, "", "SELECT * FROM a"},
                e \in {Absent, "reads the table"}}

\* what llm.invoke returns to generate_response_node
Replies == {"Here are the rows."}

\* what interrupt() returns when the run is resumed: nothing, or the answers
NoAnswers == [given |-> FALSE, goals |-> Absent, name |-> Absent]
Answers ==
    {NoAnswers,
     [given |-> TRUE, goals |-> Absent, name |-> Absent],
     [given |-> TRUE, goals |-> "ship it", name |-> "Ann"]}

\* json.loads(response): a JSONDecodeError for text that is no JSON
json_loads(response) ==
    IF response.kind = "text" THEN [ok |-> FALSE, value |-> response]
    ELSE [ok |-> TRUE, value |-> response]

\* parsed.get(key, default) of a dict
get(parsed, key, default) == IF parsed[key] = Absent THEN default ELSE parsed[key]

\* only a dict has .get: on a list it is an AttributeError
has_get(parsed) == parsed.kind = "object"

Message(role, content) == [role |-> role, content |-> content]

create_initial_state ==
    [user_name |-> "Test User",
     messages |-> <<>>,
     current_input |-> "",
     last_sync_with_db |-> "create_initial_state",
     action_taken |-> "",
     reasoning |-> "",
     next_step |-> "",
     is_db_updated |-> FALSE,
     sql_query |-> "",
     sql_result |-> "",
     intent |-> ""]

NoTurn ==
    [n |-> 0,                \* invocations that reached END
     input |-> "",           \* the current_input the caller supplied
     trace |-> <<>>,         \* the nodes that returned in this invocation
     response |-> NotJson,   \* what the model returned to classify_intent_node
     classify_calls |-> 0,   \* llm.invoke calls made by classify_intent_node
     failed |-> "",          \* the node that raised
     cause |-> "",           \* "llm": llm.invoke raised; "code": the node's code raised
     before |-> <<>>,        \* the transcript when the invocation started
     changed |-> {},         \* the fields whose value a node changed in it
     result_written |-> FALSE,  \* execute_sql_node assigned sql_result in it
     user_responses |-> NoAnswers,  \* what interrupt() returned on the resume
     classified |-> ""]      \* the User Request of classify_intent_node's prompt

\* the fields the failure of a model call is said to leave alone
TurnFields == {"sql_query", "intent", "reasoning", "sql_result", "is_db_updated", "messages"}

\* the fields of TurnFields that differ between two channel values
Changed(s, t) == {f \in TurnFields : s[f] # t[f]}

Ran(node) ==
    [turn EXCEPT !.trace = Append(@, node), !.changed = @ \cup Changed(st, st')]

\* an edge that leaves classify_intent for generate_response
edge_past_execute(node) ==
    CASE node = "START" -> "user_profile"
      [] node = "user_profile" -> "user_input"
      [] node = "user_input" -> "classify_intent"
      [] node = "classify_intent" -> "generate_response"
      [] node = "execute_sql" -> "generate_response"
      [] node = "generate_response" -> "END"

\* workflow.add_edge, lines 36-41: the node that follows a node
edge(node) ==
    CASE node = "START" -> "user_profile"
      [] node = "user_profile" -> "user_input"
      [] node = "user_input" -> "classify_intent"
      [] node = "classify_intent" -> "execute_sql"
      [] node = "execute_sql" -> "generate_response"
      [] node = "generate_response" -> "END"
Failed(node, cause) ==
    [turn EXCEPT !.failed = node, !.cause = cause, !.changed = @ \cup Changed(st, st')]

\* an invocation that, once a turn has ended, starts at user_input
Invoke_at_input(input) ==
    /\ pc \in {"START", "END", "failed"}
    /\ turn.n < MaxTurns
    /\ st' = [st EXCEPT !.current_input = input]
    /\ turn' = [NoTurn EXCEPT !.n = turn.n, !.input = input, !.before = st.messages]
    /\ pc' = IF turn.n >= 1 THEN "user_input" ELSE edge("START")
    /\ UNCHANGED <<surfaceVars, sessVars, driverVars, reducerVars>>

\* sql_agent.invoke: the caller supplies current_input and the run starts at START
Invoke(input) ==
    /\ pc \in {"START", "END", "failed"}
    /\ turn.n < MaxTurns
    /\ st' = [st EXCEPT !.current_input = input]
    /\ turn' = [NoTurn EXCEPT !.n = turn.n, !.input = input, !.before = st.messages]
    /\ pc' = edge("START")
    /\ UNCHANGED <<surfaceVars, sessVars, driverVars, reducerVars>>

\* user_profile_node up to interrupt(): the run pauses
user_profile_interrupt(llmOk) ==
    /\ pc = "user_profile"
    /\ UNCHANGED <<st, surfaceVars, sessVars, driverVars, reducerVars>>
    /\ IF llmOk
       THEN pc' = "interrupted" /\ UNCHANGED turn
       ELSE pc' = "failed" /\ turn' = Failed("user_profile", "llm")

\* the run is resumed: user_profile_node runs again and interrupt() returns
user_profile_node(user_responses, llmOk) ==
    /\ pc = "interrupted"
    /\ UNCHANGED <<surfaceVars, sessVars, driverVars, reducerVars>>
    /\ IF ~llmOk
       THEN /\ pc' = "failed"
            /\ UNCHANGED st
            /\ turn' = Failed("user_profile", "llm")
       ELSE /\ pc' = edge("user_profile")
            /\ st' = LET s1 == IF user_responses.given
                               THEN [st EXCEPT
                                       !.user_name = get(user_responses, "name", "User"),
                                       !.current_input =
                                           "Profile setup complete: "
                                               \o get(user_responses, "goals", "")]
                               ELSE st
                     IN  [s1 EXCEPT !.action_taken = "user_profile_collected",
                                    !.last_sync_with_db = "user_profile"]
            /\ turn' = [Ran("user_profile") EXCEPT !.user_responses = user_responses]

user_input_node ==
    /\ pc = "user_input"
    /\ UNCHANGED <<surfaceVars, sessVars, driverVars, reducerVars>>
    /\ pc' = edge("user_input")
    /\ st' = [st EXCEPT !.action_taken = "user_input_received",
                        !.last_sync_with_db = "user_input"]
    /\ turn' = Ran("user_input")

\* the except branch with the default of the try branch
classified_default_on_failure(loaded) ==
    IF loaded.ok
    THEN [reasoning |-> get(loaded.value, "explanation", ""),
          next_step |-> "execute_sql",
          action_taken |-> "classified_intent",
          sql_query |-> get(loaded.value, "sql_query", ""),
          intent |-> get(loaded.value, "intent", "select")]
    ELSE [reasoning |-> st.reasoning,
          next_step |-> "handle_error",
          action_taken |-> "failed_to_parse_intent",
          sql_query |-> "",
          intent |-> "select"]

\* lines 159-179: the fields classify_intent_node writes for a response that
\* json.loads loaded into a dict, and for one it refused
classified(loaded) ==
    IF loaded.ok
    THEN [reasoning |-> get(loaded.value, "explanation", ""),
          next_step |-> "execute_sql",
          action_taken |-> "classified_intent",
          sql_query |-> get(loaded.value, "sql_query", ""),
          intent |-> get(loaded.value, "intent", "select")]
    ELSE [reasoning |-> st.reasoning,
          next_step |-> "handle_error",
          action_taken |-> "failed_to_parse_intent",
          sql_query |-> "",
          intent |-> "error"]

classify_intent_node(response, llmOk) ==
    /\ pc = "classify_intent"
    /\ UNCHANGED <<surfaceVars, sessVars, driverVars, reducerVars>>
    /\ IF ~llmOk
       THEN /\ pc' = "failed"
            /\ UNCHANGED st
            /\ turn' = [Failed("classify_intent", "llm") EXCEPT
                            !.classify_calls = @ + 1, !.classified = st.current_input]
       ELSE LET loaded == json_loads(response)
                t1 == [turn EXCEPT !.classify_calls = @ + 1, !.response = response,
                                   !.classified = st.current_input]
            IN  IF loaded.ok /\ ~has_get(loaded.value)
                THEN /\ pc' = "failed"
                     /\ UNCHANGED st
                     /\ turn' = [t1 EXCEPT !.failed = "classify_intent", !.cause = "code"]
                ELSE LET w == classified(loaded)
                     IN  /\ pc' = edge("classify_intent")
                         /\ st' = [st EXCEPT !.reasoning = w.reasoning,
                                             !.next_step = w.next_step,
                                             !.action_taken = w.action_taken,
                                             !.sql_query = w.sql_query,
                                             !.intent = w.intent]
                         /\ turn' = [t1 EXCEPT !.trace = Append(@, "classify_intent"),
                                               !.changed = @ \cup Changed(st, st')]

\* the dirty flag and the timestamp set on the empty path as well
execute_sql_node_always_dirty ==
    /\ pc = "execute_sql"
    /\ UNCHANGED <<surfaceVars, sessVars, driverVars, reducerVars>>
    /\ pc' = edge("execute_sql")
    /\ IF st.sql_query = ""
       THEN /\ st' = [st EXCEPT !.action_taken = "no_sql_query",
                                !.reasoning = "No valid SQL query was generated",
                                !.is_db_updated = TRUE,
                                !.last_sync_with_db = "execute_sql"]
            /\ turn' = Ran("execute_sql")
       ELSE /\ st' = [st EXCEPT !.action_taken = "sql_executed",
                                !.is_db_updated = TRUE,
                                !.last_sync_with_db = "execute_sql",
                                !.sql_result = "PLACEHOLDER_RESULT"]
            /\ turn' = [Ran("execute_sql") EXCEPT !.result_written = TRUE]

execute_sql_node ==
    /\ pc = "execute_sql"
    /\ UNCHANGED <<surfaceVars, sessVars, driverVars, reducerVars>>
    /\ pc' = edge("execute_sql")
    /\ IF st.sql_query = ""
       THEN /\ st' = [st EXCEPT !.action_taken = "no_sql_query",
                                !.reasoning = "No valid SQL query was generated"]
            /\ turn' = Ran("execute_sql")
       ELSE /\ st' = [st EXCEPT !.action_taken = "sql_executed",
                                !.is_db_updated = TRUE,
                                !.last_sync_with_db = "execute_sql",
                                !.sql_result = "PLACEHOLDER_RESULT"]
            /\ turn' = [Ran("execute_sql") EXCEPT !.result_written = TRUE]

\* the transcript started anew with the two entries of this turn
appended_fresh(messages, user_input, response) ==
    <<Message("user", user_input), Message("assistant", response)>>

\* lines 228-236: messages.append of the user entry and the assistant entry
appended(messages, user_input, response) ==
    Append(Append(messages, Message("user", user_input)), Message("assistant", response))

\* the user entry appended before the model is called, and kept when the
\* call raises
generate_response_node_append_first(response, llmOk) ==
    /\ pc = "generate_response"
    /\ UNCHANGED <<surfaceVars, sessVars, driverVars, reducerVars>>
    /\ IF ~llmOk
       THEN /\ pc' = "failed"
            /\ st' = [st EXCEPT !.messages = Append(@, Message("user", st.current_input))]
            /\ turn' = Failed("generate_response", "llm")
       ELSE /\ pc' = edge("generate_response")
            /\ st' = [st EXCEPT !.messages = appended(@, st.current_input, response),
                                !.action_taken = "response_generated"]
            /\ turn' = [Ran("generate_response") EXCEPT !.n = @ + 1]

generate_response_node(response, llmOk) ==
    /\ pc = "generate_response"
    /\ UNCHANGED <<surfaceVars, sessVars, driverVars, reducerVars>>
    /\ IF ~llmOk
       THEN /\ pc' = "failed"
            /\ UNCHANGED st
            /\ turn' = Failed("generate_response", "llm")
       ELSE /\ pc' = edge("generate_response")
            /\ st' = [st EXCEPT !.messages = appended(@, st.current_input, response),
                                !.action_taken = "response_generated"]
            /\ turn' = [Ran("generate_response") EXCEPT !.n = @ + 1]

InitFlow ==
    /\ pc = "START"
    /\ st = create_initial_state
    /\ turn = NoTurn

-----------------------------------------------------------------------------
(* The chat driver: main of server/chainlit_app.py.  The host starts one   *)
(* run of main for each message of the session; a run is suspended at each *)
(* await, and the runs of one session share the list chat_messages.        *)

MessageIds == 1..MaxMessages

\* an entry of the list; of is the message whose run appended it, id and
\* tool_calls are 0 and <<>> where the entry has no such key
Entry(role, content, tool_calls, id, k) ==
    [role |-> role, content |-> content, tool_calls |-> tool_calls,
     tool_call_id |-> id, of |-> k]

\* the ids of the n tool calls the model asked for in the run of message k
ToolCallIds(k, n) == [i \in 1..n |-> 10 * k + i]

\* the ids of the n tool calls of the second reply
SecondToolCallIds(k, n) == [i \in 1..n |-> 10 * k + 5 + i]

NoTask ==
    [at |-> "none",      \* where the run stands
     calls |-> <<>>,     \* the tool calls the loop goes over
     i |-> 0,            \* the index of the tool call the loop is at
     llm |-> 0,          \* the model calls made
     asked |-> <<>>,     \* the tool calls of the first model reply
     asked2 |-> <<>>,    \* the tool calls of the second model reply
     executed |-> <<>>]  \* the tool calls session.call_tool ran, in order

\* the run of message k has ended, by returning or by raising
Ended(k) == tasks[k].at \in {"done", "raised"}

\* lines 75-113: the user entry is appended, then the run awaits
\* session.list_tools() and the first model call.  The messages arrive in
\* their order; the runs explored are those in which a message arrives
\* while at most the run of the message before it has not ended.
main_begin(k) ==
    /\ tasks[k].at = "none"
    /\ \A j \in MessageIds : j < k => tasks[j].at # "none"
    /\ \A j \in MessageIds : j + 1 < k => Ended(j)
    /\ chat_messages' = Append(chat_messages, Entry("user", "message", <<>>, 0, k))
    /\ tasks' = [tasks EXCEPT ![k].at = "llm1"]
    /\ UNCHANGED <<surfaceVars, flowVars, sessVars, reducerVars>>

\* lines 113-156: the first model call returns (or raises), the assistant
\* entries are appended
first_response(k, content, n, ok) ==
    /\ tasks[k].at = "llm1"
    /\ UNCHANGED <<surfaceVars, flowVars, sessVars, reducerVars>>
    /\ IF ~ok
       THEN /\ tasks' = [tasks EXCEPT ![k].at = "raised", ![k].llm = @ + 1]
            /\ UNCHANGED chat_messages
       ELSE LET m1 == IF content # ""
                      THEN Append(chat_messages, Entry("assistant", content, <<>>, 0, k))
                      ELSE chat_messages
                m2 == IF n > 0
                      THEN Append(m1, Entry("assistant", content, ToolCallIds(k, n), 0, k))
                      ELSE m1
            IN  /\ chat_messages' = m2
                /\ tasks' = [tasks EXCEPT
                                 ![k].at = IF n > 0 THEN "tool" ELSE "done",
                                 ![k].calls = ToolCallIds(k, n),
                                 ![k].i = 1,
                                 ![k].llm = @ + 1,
                                 ![k].asked = ToolCallIds(k, n)]

\* lines 158-184: one turn of the loop over the tool calls: json.loads of
\* the arguments, await session.call_tool, the tool entry appended
call_tool(k, ok) ==
    /\ tasks[k].at = "tool"
    /\ UNCHANGED <<surfaceVars, flowVars, sessVars, reducerVars>>
    /\ IF ~ok
       THEN /\ tasks' = [tasks EXCEPT ![k].at = "raised"]
            /\ UNCHANGED chat_messages
       ELSE /\ chat_messages' =
                   Append(chat_messages,
                          Entry("tool", "result", <<>>, tasks[k].calls[tasks[k].i], k))
            /\ tasks' = [tasks EXCEPT
                             ![k].i = @ + 1,
                             ![k].executed = Append(@, tasks[k].calls[tasks[k].i]),
                             ![k].at = IF tasks[k].i = Len(tasks[k].calls) THEN "llm2" ELSE "tool"]

\* a second reply whose tool calls are run as those of the first were
final_response_loops(k, content, n, ok) ==
    /\ tasks[k].at = "llm2"
    /\ UNCHANGED <<surfaceVars, flowVars, sessVars, reducerVars>>
    /\ IF ~ok
       THEN /\ tasks' = [tasks EXCEPT ![k].at = "raised", ![k].llm = @ + 1]
            /\ UNCHANGED chat_messages
       ELSE /\ chat_messages' =
                   IF content # ""
                   THEN Append(chat_messages, Entry("assistant", content, <<>>, 0, k))
                   ELSE chat_messages
            /\ tasks' = [tasks EXCEPT ![k].at = IF n > 0 THEN "tool" ELSE "done",
                                      ![k].calls = SecondToolCallIds(k, n),
                                      ![k].i = 1,
                                      ![k].llm = @ + 1,
                                      ![k].asked2 = SecondToolCallIds(k, n)]

\* lines 187-206: the second model call returns (or raises) with a text
\* and n tool calls; the text is appended when it is not empty, the tool
\* calls are not read
final_response(k, content, n, ok) ==
    /\ tasks[k].at = "llm2"
    /\ UNCHANGED <<surfaceVars, flowVars, sessVars, reducerVars>>
    /\ IF ~ok
       THEN /\ tasks' = [tasks EXCEPT ![k].at = "raised", ![k].llm = @ + 1]
            /\ UNCHANGED chat_messages
       ELSE /\ chat_messages' =
                   IF content # ""
                   THEN Append(chat_messages, Entry("assistant", content, <<>>, 0, k))
                   ELSE chat_messages
            /\ tasks' = [tasks EXCEPT ![k].at = "done",
                                      ![k].llm = @ + 1,
                                      ![k].asked2 = SecondToolCallIds(k, n)]

\* the first replies of the model: a text, tool calls, or a text with tool
\* calls; and the second replies: a text, or no text and one more tool call
FirstReplies ==
    {[content |-> "text", n |-> 0],
     [content |-> "", n |-> MaxToolCalls],
     [content |-> "text", n |-> MaxToolCalls]}
SecondReplies == {[content |-> "text", n |-> 0], [content |-> "", n |-> 1]}

NextDriver ==
    \/ \E k \in MessageIds : main_begin(k)
    \/ \E k \in MessageIds, r \in FirstReplies, ok \in BOOLEAN :
           first_response(k, r.content, r.n, ok)
    \/ \E k \in MessageIds, ok \in BOOLEAN : call_tool(k, ok)
    \/ \E k \in MessageIds, r \in SecondReplies, ok \in BOOLEAN :
           final_response(k, r.content, r.n, ok)

InitDriver ==
    /\ chat_messages = <<>>
    /\ tasks = [k \in MessageIds |-> NoTask]

-----------------------------------------------------------------------------
(* The reducers of the data model (nodes/state_schemas.py) *)

\* the value of "id" of a record that has none (g.get("id") is falsy)
NoId == 0

Ids == 1..MaxRecords

\* a Goal or a Plan: its id and the rest of its fields
Records == [id : {NoId} \cup Ids, title : {"a", "b"}]

RecordLists == UNION {[1..n -> Records] : n \in 0..MaxRecords}

\* d[key] = g of a dict kept as the list of its values in insertion order:
\* an existing key keeps its place and takes the new value, a new key is
\* put at the end
setitem(d, g) ==
    IF \E i \in 1..Len(d) : d[i].id = g.id
    THEN [i \in 1..Len(d) |-> IF d[i].id = g.id THEN g ELSE d[i]]
    ELSE Append(d, g)

\* the dict after the assignments d[g["id"]] = g for the records of gs that
\* have an id, in the order of gs
RECURSIVE upsert(_, _)
upsert(d, gs) ==
    IF gs = <<>> THEN d
    ELSE upsert(IF Head(gs).id # NoId THEN setitem(d, Head(gs)) ELSE d, Tail(gs))

HasNoId(g) == g.id = NoId

\* what a call returns and the list passed as current when it returns
Outcome(returned, current) == [result |-> returned, current |-> current]

goals_reducer(is_none, current, updates) ==
    IF is_none THEN Outcome(updates, current)
    ELSE Outcome(upsert(upsert(<<>>, current), updates),
                 current \o SelectSeq(updates, HasNoId))

plans_reducer(is_none, current, updates) ==
    IF is_none THEN Outcome(updates, current)
    ELSE Outcome(upsert(upsert(<<>>, current), updates),
                 current \o SelectSeq(updates, HasNoId))

\* no call was made: the arguments a call will get
Arguments(is_none, current, updates) ==
    [fn |-> "none", is_none |-> is_none, current |-> current, updates |-> updates,
     result |-> <<>>, current_after |-> current]

Returned(fn, outcome) ==
    [red EXCEPT !.fn = fn, !.result = outcome.result,
                !.current_after = outcome.current]

Call_goals_reducer ==
    /\ red.fn = "none"
    /\ red' = Returned("goals_reducer",
                       goals_reducer(red.is_none, red.current, red.updates))
    /\ UNCHANGED <<surfaceVars, flowVars, sessVars, driverVars>>

Call_plans_reducer ==
    /\ red.fn = "none"
    /\ red' = Returned("plans_reducer",
                       plans_reducer(red.is_none, red.current, red.updates))
    /\ UNCHANGED <<surfaceVars, flowVars, sessVars, driverVars>>

NextReducer ==
    \/ Call_goals_reducer
    \/ Call_plans_reducer

\* no field of the state is declared with a reducer: the pipeline calls none
InitReducer == red = Arguments(TRUE, <<>>, <<>>)

\* the arguments of a call: current is None or a list, updates is a list
InitReducerArguments ==
    \E is_none \in BOOLEAN, current \in RecordLists, updates \in RecordLists :
        /\ is_none => current = <<>>
        /\ red = Arguments(is_none, current, updates)

Init == InitSurface /\ InitFlow /\ InitSessions /\ InitDriver /\ InitReducer

Spec == Init /\ [][Next]_vars

NextFlow ==
    \/ \E input \in Inputs : Invoke(input)
    \/ \E llmOk \in BOOLEAN : user_profile_interrupt(llmOk)
    \/ \E a \in Answers, llmOk \in BOOLEAN : user_profile_node(a, llmOk)
    \/ user_input_node
    \/ \E r \in ClassifierOutputs, llmOk \in BOOLEAN : classify_intent_node(r, llmOk)
    \/ execute_sql_node
    \/ \E r \in Replies, llmOk \in BOOLEAN : generate_response_node(r, llmOk)

SpecFlow == Init /\ [][NextFlow]_vars

\* the steps the graph runtime takes by itself once a run was invoked or
\* resumed; sql_agent.invoke and the resume of a paused run are the caller's
FairFlow ==
    /\ WF_vars(\E llmOk \in BOOLEAN : user_profile_interrupt(llmOk))
    /\ WF_vars(user_input_node)
    /\ WF_vars(\E r \in ClassifierOutputs, llmOk \in BOOLEAN : classify_intent_node(r, llmOk))
    /\ WF_vars(execute_sql_node)
    /\ WF_vars(\E r \in Replies, llmOk \in BOOLEAN : generate_response_node(r, llmOk))

SpecFlowFair == Init /\ [][NextFlow]_vars /\ FairFlow

SpecNames == Init /\ [][NextNames]_vars

SpecSessions == Init /\ [][NextSessions]_vars

SpecDriver == Init /\ [][NextDriver]_vars

\* a reducer is about to be called with some arguments
InitCall ==
    InitSurface /\ InitFlow /\ InitSessions /\ InitDriver /\ InitReducerArguments

SpecReducer == InitCall /\ [][NextReducer]_vars

-----------------------------------------------------------------------------
(* The execution surface: properties *)

Contains(text, tok) == tok \in Range(text)
BeginsWith(text, tok) == text # <<>> /\ Head(text) = tok

IsPrefix(s, t) == Len(s) <= Len(t) /\ SubSeq(t, 1, Len(s)) = s

EndsWith(t, s) == Len(s) <= Len(t) /\ SubSeq(t, Len(t) - Len(s) + 1, Len(t)) = s

FileOf(db_name) == db_name \o <<".db">>

\* C1: a query_data call made while no database is active returns a text
\* that contains "No database selected", leaves every file of the directory
\* as it was (none created, none modified) and leaves the pointer unset.
C1_NoDatabaseSelected ==
    [][(call'.op = "query_data" /\ current_db = None)
        => /\ ~raised'
           /\ Contains(result', "No database selected")
           /\ files' = files
           /\ current_db' = None]_vars

C1_Witness ==
    /\ call.op = "query_data"
    /\ current_db = None
    /\ \E f \in FileNames : files[f].there
    /\ Contains(result, "No database selected")

\* C2: switch_database(x) with x.db missing from the directory returns the
\* NotFound text and leaves the pointer as it was; with x.db in the directory
\* it makes the path of x.db the pointer.
C2_SwitchDatabase ==
    [][call'.op = "switch_database"
        => LET x == call'.name
           IN  IF ~files[FileOf(x)].there
               THEN /\ ~raised'
                    /\ BeginsWith(result', "Error:")
                    /\ Contains(result', "' does not exist in databases/ folder.")
                    /\ current_db' = current_db
               ELSE current_db' = <<DATABASES_DIR>> \o FileOf(x)]_vars

\* a missing name was asked for while another database was active
C2_Witness ==
    /\ call.op = "switch_database"
    /\ ~files[FileOf(call.name)].there
    /\ current_db # None
    /\ Contains(result, "' does not exist in databases/ folder.")

\* C3: every operation of the surface returns a text: none ends by raising.
C3_NeverRaises == ~raised

\* the statements sqlite3 refuses on a database with the given tables
SqlFails(tables, sql) ==
    \/ sql.kw = "SELEKT"
    \/ sql.kw = "CREATE" /\ tables[sql.tbl].made
    \/ sql.kw \in {"INSERT", "SELECT", "select", "DELETE"} /\ ~tables[sql.tbl].made

\* C4: a query_data call whose statement fails in sqlite3 returns a text
\* beginning with "Error:", leaves the pointer as it was and leaves every
\* table and row of every database as it was.
C4_FailedQuery ==
    [][(/\ call'.op = "query_data"
        /\ ~call'.fault
        /\ current_db # None
        /\ SqlFails(files[basename(current_db)].tables, call'.sql))
        => /\ ~raised'
           /\ BeginsWith(result', "Error:")
           /\ current_db' = current_db
           /\ files' = files]_vars

\* malformed SQL on a database that holds rows
C4_Witness ==
    /\ call.op = "query_data"
    /\ call.sql.kw = "SELEKT"
    /\ current_db # None
    /\ files[basename(current_db)].tables["a"].rows # <<>>
    /\ BeginsWith(result, "Error:")

\* C8 as stated: create_database(name) for a name whose file holds a table
\* with rows leaves the database of that name empty.
C8_Truncates ==
    [][(/\ call'.op = "create_database"
        /\ ~call'.fault
        /\ files[FileOf(call'.name)].tables["a"].rows # <<>>)
        => files'[FileOf(call'.name)] = EmptyDb]_vars

\* C8 amended: create_database(name) for a name whose file exists leaves the
\* tables and rows of that file, and of every other file, as they were; when
\* the file opens it becomes the active database.
C8_KeepsExisting ==
    [][(call'.op = "create_database" /\ files[FileOf(call'.name)].there)
        => /\ files' = files
           /\ (~call'.fault => current_db' = <<DATABASES_DIR>> \o FileOf(call'.name))]_vars

\* create_database was called for a database that holds rows
C8_Witness ==
    /\ call.op = "create_database"
    /\ ~call.fault
    /\ current_db = <<DATABASES_DIR>> \o FileOf(call.name)
    /\ files[FileOf(call.name)].tables["a"].rows # <<>>

\* C9 as stated: from any reachable state, create_database(t),
\* switch_database(t), query_data(CREATE TABLE a), query_data(SELECT * FROM a),
\* each meeting no storage fault, ends with "Query returned no results.".
C9_RoundTrip == rt.k = 4 => result = <<"Query returned no results.">>

\* C9 amended: the sequence ends with "Query returned no results." when it
\* starts in a state where t.db holds no row in a table a.
C9_RoundTripFresh == (rt.k = 4 /\ ~rt.had) => result = <<"Query returned no results.">>

C9_Witness == rt.k = 4 /\ ~rt.had /\ rt.n = <<"t">> /\ ~raised

RowLine == [v \in Vals |-> IF v = 1 THEN "(1,)" ELSE "(2,)"]

\* C10: when a query_data INSERT returned the rows-affected text, the next
\* call, a query_data SELECT on the same table that opens the database,
\* returns a row listing that contains the inserted row.
C10_InsertThenSelect ==
    (/\ prevIns # NoIns
     /\ call.op = "query_data"
     /\ call.sql.kw \in {"SELECT", "select"}
     /\ call.sql.tbl = prevIns.tbl
     /\ ~call.fault)
        => ~raised /\ Contains(result, RowLine[prevIns.val])

\* INSERT ... VALUES (1) was followed by a SELECT
C10_Witness ==
    /\ prevIns = [tbl |-> "a", val |-> 1]
    /\ call.op = "query_data"
    /\ call.sql = Stmt("SELECT", "a", 0)
    /\ Contains(result, "(1,)")

\* the statement, leading whitespace and case ignored, starts with SELECT
SelectStatement(sql) == sql.kw \in {"SELECT", "select", "  select"}

\* the last call was a query_data on an active database whose statement
\* sqlite3 executed
Executed ==
    /\ call.op = "query_data"
    /\ ~call.fault
    /\ current_db # None
    /\ ~raised
    /\ ~BeginsWith(result, "Error:")

\* what the statement of the last call wrote is in the file
Committed ==
    LET t == files[basename(current_db)].tables[call.sql.tbl]
    IN  CASE call.sql.kw = "CREATE" -> t.made
          [] call.sql.kw = "INSERT" -> t.rows # <<>> /\ t.rows[Len(t.rows)] = call.sql.val
          [] call.sql.kw = "DELETE" -> t = Table(<<>>)
          [] OTHER -> t.made

\* C11: with a database active, a query_data call whose statement executed
\* returns the fetched rows as text lines, or "Query returned no results.",
\* exactly when the statement, leading whitespace and case ignored, starts
\* with SELECT; for every other executed statement it returns the
\* rows-affected count; in both cases what the statement wrote is committed.
C11_SelectPrefix ==
    Executed =>
        LET rows == files[basename(current_db)].tables[call.sql.tbl].rows
            listing == IF rows = <<>> THEN NoResultsText ELSE RowsText(rows)
        IN  /\ SelectStatement(call.sql) <=> result = listing
            /\ ~SelectStatement(call.sql) =>
                   /\ Len(result) = 2
                   /\ Head(result) = "Query executed successfully. Rows affected: "
            /\ Committed

\* a SELECT written in lower case after leading whitespace listed two rows
C11_Witness ==
    /\ Executed
    /\ call.sql.kw = "  select"
    /\ Len(result) = 2
    /\ result[1] = "(1,)"

\* a statement that yields rows and does not start with SELECT returned
\* the rows-affected count
C11_WitnessOther ==
    /\ Executed
    /\ call.sql.kw = "WITH"
    /\ files[basename(current_db)].tables["a"].rows # <<>>
    /\ result = AffectedText(-1)

\* C12: a create_database(name) call that succeeds leaves the file
\* <name>.db in the databases directory and makes it the active database;
\* a call that fails returns a text beginning "Error creating database"
\* and leaves the pointer (and the files) as they were.
C12_CreateDatabase ==
    [][call'.op = "create_database" =>
          /\ ~raised'
          /\ IF call'.fault
             THEN /\ BeginsWith(result', "Error creating database: ")
                  /\ current_db' = current_db
                  /\ files' = files
             ELSE /\ result' = CreatedText(call'.name)
                  /\ files'[FileOf(call'.name)].there
                  /\ current_db' = <<DATABASES_DIR>> \o FileOf(call'.name)]_vars

\* a create_database call failed while another database was active
C12_Witness ==
    /\ call.op = "create_database"
    /\ call.fault
    /\ BeginsWith(result, "Error creating database: ")
    /\ current_db # None
    /\ current_db # get_db_path(call.name)

\* the text holds the name as one bullet of the listing
Lists(text, db_name) ==
    \E i \in 1..Len(text) :
        /\ text[i] = "  * "
        /\ i + Len(db_name) <= Len(text)
        /\ SubSeq(text, i + 1, i + Len(db_name)) = db_name
        /\ i + Len(db_name) < Len(text) =>
               text[i + Len(db_name) + 1] \in {"  * ", "Current database: ", "No database selected"}

\* C13: list_databases leaves the files and the pointer as they were; when
\* a database file exists its result lists the name of every database in
\* the directory and names the active database, or carries the
\* none-selected notice when the pointer is unset; when no file exists it
\* returns "No databases found".
C13_ListDatabases ==
    [][(call'.op = "list_databases" /\ ~call'.fault) =>
          /\ files' = files
          /\ current_db' = current_db
          /\ IF \A n \in AllNames : ~files[FileOf(n)].there
             THEN BeginsWith(result', "No databases found in the databases folder.")
             ELSE /\ \A n \in AllNames : files[FileOf(n)].there => Lists(result', n)
                  /\ \A n \in AllNames :
                         current_db = get_db_path(n) =>
                             EndsWith(result', <<"Current database: ">> \o n)
                  /\ current_db = None => Contains(result', "No database selected")]_vars

\* the same for the databases whose name holds no ".db"
C13_ListPlainNames ==
    [][(call'.op = "list_databases" /\ ~call'.fault) =>
          /\ files' = files
          /\ current_db' = current_db
          /\ IF \A n \in AllNames : ~files[FileOf(n)].there
             THEN BeginsWith(result', "No databases found in the databases folder.")
             ELSE /\ \A n \in DbNames : files[FileOf(n)].there => Lists(result', n)
                  /\ \A n \in DbNames :
                         current_db = get_db_path(n) =>
                             EndsWith(result', <<"Current database: ">> \o n)
                  /\ current_db = None => Contains(result', "No database selected")]_vars

\* C24: the pointer is None or the path of a file that is in the
\* directory; it changes only in a create_database or switch_database call
\* that succeeded, to the file that call named (query_data, list_databases
\* and failed calls leave it); while the server process runs it is not set
\* back to None; and no call removes a file from the directory.
C24_PointerLifecycle ==
    [][/\ current_db' # None => files'[basename(current_db')].there
       /\ (current_db' # current_db /\ call'.op # "restart") =>
              /\ call'.op \in {"create_database", "switch_database"}
              /\ ~call'.fault
              /\ ~BeginsWith(result', "Error:")
              /\ current_db' = get_db_path(call'.name)
       /\ (current_db # None /\ call'.op # "restart") => current_db' # None
       /\ \A f \in FileNames : files[f].there => files'[f].there]_vars

\* with a database active and another name not yet created, a
\* create_database call failed: the pointer still names its file
C24_Witness ==
    /\ call.op = "create_database"
    /\ call.fault
    /\ current_db # None
    /\ files[basename(current_db)].there
    /\ \E n \in DbNames : ~files[FileOf(n)].there

\* C25: a query_data call leaves every file but the one the pointer names
\* as it was (all of them when no database is active), and a SELECT it
\* executes returns the rows that the active file held before the call:
\* the rows written to a database are still there, and are returned, after
\* statements were run on another database and the first was switched back.
C25_OnlyActiveDatabase ==
    [][call'.op = "query_data" =>
          /\ \A f \in FileNames :
                 (current_db = None \/ f # basename(current_db)) => files'[f] = files[f]
          /\ (Executed' /\ SelectStatement(call'.sql)) =>
                 LET rows == files[basename(current_db)].tables[call'.sql.tbl].rows
                 IN  result' = IF rows = <<>> THEN NoResultsText ELSE RowsText(rows)]_vars

\* a row was inserted into u while t, not active, holds a row
C25_Witness ==
    /\ Executed
    /\ call.sql.kw = "INSERT"
    /\ current_db = get_db_path(<<"u">>)
    /\ files[FileOf(<<"t">>)].tables["a"].rows = <<1>>
    /\ files[FileOf(<<"u">>)].tables["a"].rows = <<2>>

\* the row of t was returned after rows were written to u
C25_WitnessBack ==
    /\ Executed
    /\ call.sql.kw = "SELECT"
    /\ current_db = get_db_path(<<"t">>)
    /\ files[FileOf(<<"u">>)].tables["a"].rows = <<2>>
    /\ result = <<"(1,)">>

\* C26: after every query_data call (the statement executed, the statement
\* refused, no database active, the file not opened) and after every
\* create_database call no connection is open.
C26_NoOpenConnection ==
    call.op \in {"query_data", "create_database"} => open_conns = 0

\* a statement that sqlite3 refused was run on an active database
C26_Witness ==
    /\ call.op = "query_data"
    /\ ~call.fault
    /\ current_db # None
    /\ BeginsWith(result, "Error:")
    /\ open_conns = 0

-----------------------------------------------------------------------------
(* The pipeline: properties *)

\* the model returned a response to classify_intent_node in this invocation
Classified == turn.classify_calls >= 1 /\ ~(turn.failed = "classify_intent" /\ turn.cause = "llm")

\* C5: for every model output that parses as JSON, classify_intent_node
\* returns without raising, and sql_query and intent are the parsed fields,
\* "" and "select" standing in for an absent field.
C5_ValidJson ==
    (Classified /\ turn.response.kind # "text")
        => /\ turn.failed # "classify_intent"
           /\ pc = "execute_sql" =>
                /\ st.sql_query =
                     (IF turn.response.sql_query = Absent THEN "" ELSE turn.response.sql_query)
                /\ st.intent =
                     (IF turn.response.intent = Absent THEN "select" ELSE turn.response.intent)

\* C6: for a model output that is no JSON, classify_intent_node makes one
\* model call and yields intent "error", sql_query "" and the parse-failure
\* label; execute_sql and generate_response run next, and the invocation
\* reaches END unless the model call of generate_response raises.
C6_ParseFailure ==
    (Classified /\ turn.response.kind = "text")
        => /\ st.intent = "error"
           /\ st.sql_query = ""
           /\ turn.classify_calls = 1
           /\ turn.failed # "classify_intent"
           /\ \/ /\ pc = "execute_sql"
                 /\ st.action_taken = "failed_to_parse_intent"
                 /\ EndsWith(turn.trace, <<"classify_intent">>)
                 /\ ENABLED execute_sql_node
              \/ /\ pc = "generate_response"
                 /\ st.action_taken = "no_sql_query"
                 /\ EndsWith(turn.trace, <<"classify_intent", "execute_sql">>)
                 /\ ENABLED generate_response_node("Here are the rows.", TRUE)
              \/ /\ pc = "END"
                 /\ EndsWith(turn.trace, <<"classify_intent", "execute_sql", "generate_response">>)
              \/ /\ pc = "failed"
                 /\ turn.failed = "generate_response"
                 /\ turn.cause = "llm"

\* the invocation reached END after a parse failure
C6_Witness ==
    /\ Classified
    /\ turn.response.kind = "text"
    /\ pc = "END"
    /\ st.intent = "error"

\* C7: every step leaves the entries of the transcript where they were, with
\* their role and content; an invocation that reaches END appends a user
\* entry and an assistant entry, in that order; after N invocations that
\* reached END the transcript holds at least 2N entries.
C7_AppendOnly ==
    [][/\ IsPrefix(st.messages, st.messages')
       /\ Len(st.messages') >= 2 * turn'.n
       /\ turn'.n = turn.n + 1 =>
            /\ Len(st.messages') = Len(st.messages) + 2
            /\ st.messages'[Len(st.messages) + 1].role = "user"
            /\ st.messages'[Len(st.messages) + 2].role = "assistant"]_vars

\* two invocations reached END, the second after a different input
C7_Witness ==
    /\ turn.n = 2
    /\ pc = "END"
    /\ Len(st.messages) = 4
    /\ st.messages[1].content # st.messages[3].content

\* the five stages in the order of the edges
Stages == <<"user_profile", "user_input", "classify_intent", "execute_sql", "generate_response">>

\* C14: the nodes that ran in an invocation are the five stages in their
\* order, each once and none skipped: the node to run next is the one after
\* the last that ran, and an invocation that ended ran all five, whatever
\* classify_intent made of the model's output.
C14_LinearPipeline ==
    /\ IsPrefix(turn.trace, Stages)
    /\ pc \in Range(Stages) => pc = Stages[Len(turn.trace) + 1]
    /\ pc = "interrupted" => turn.trace = <<>>
    /\ (pc = "END" /\ turn.n > 0) => turn.trace = Stages

\* an invocation whose classification was a parse failure ended
C14_Witness ==
    /\ pc = "END"
    /\ st.intent = "error"
    /\ st.action_taken = "response_generated"
    /\ turn.trace = Stages

\* an invocation made after a turn of the session has ended
LaterTurn == (pc # "END" /\ turn.n >= 1) \/ (pc = "END" /\ turn.n >= 2)

\* C15 as stated: a turn after the session's first enters at user_input, so
\* that user_profile is neither the node to run, nor paused, nor among the
\* nodes that ran or raised in it.
C15_EntersAtInput ==
    LaterTurn =>
        /\ pc \notin {"user_profile", "interrupted"}
        /\ "user_profile" \notin Range(turn.trace)
        /\ turn.failed # "user_profile"

\* C15: every invocation, the first and the later ones alike, enters at
\* user_profile, and starts from the channel values the previous
\* invocations left, current_input alone replaced by the caller's input.
C15_EntersAtProfile ==
    [][(pc \in {"START", "END", "failed"} /\ pc' # pc) =>
          /\ pc' = "user_profile"
          /\ turn'.trace = <<>>
          /\ st' = [st EXCEPT !.current_input = turn'.input]]_vars

\* the second turn of a session went through user_profile and holds the
\* transcript of the first
C15_Witness ==
    /\ turn.n = 1
    /\ pc = "user_input"
    /\ turn.trace = <<"user_profile">>
    /\ Len(st.messages) = 2

Intents == {"select", "insert", "update", "delete", "create", "error"}

\* C16: the intent classify_intent_node wrote is one of select, insert,
\* update, delete, create, error, whatever the model returned.
C16_IntentEnumerated ==
    "classify_intent" \in Range(turn.trace) => st.intent \in Intents

\* C21: when generate_response_node is the node to run, execute_sql_node
\* has assigned sql_result in this invocation: the response generator is
\* given neither the initial empty value nor the result of an earlier turn,
\* also when the classification failed or gave an empty query.
C21_ResultWritten ==
    pc = "generate_response" => turn.result_written

\* C22: execute_sql_node with an empty sql_query writes action_taken and
\* reasoning and nothing else (is_db_updated, last_sync_with_db and
\* sql_result stay); with a query it sets is_db_updated and
\* last_sync_with_db and records "sql_executed".
C22_EmptyQueryNoOp ==
    [][(pc = "execute_sql" /\ pc' # pc) =>
          IF st.sql_query = ""
          THEN st' = [st EXCEPT !.action_taken = "no_sql_query",
                                !.reasoning = "No valid SQL query was generated"]
          ELSE /\ st'.is_db_updated
               /\ st'.last_sync_with_db = "execute_sql"
               /\ st'.action_taken = "sql_executed"]_vars

\* execute_sql_node ran on an empty query in a session no query had
\* marked yet
C22_Witness ==
    /\ pc = "generate_response"
    /\ st.action_taken = "no_sql_query"
    /\ st.sql_query = ""
    /\ ~st.is_db_updated
    /\ st.last_sync_with_db = "user_input"

\* an invocation is under way or has ended
Invoked == pc # "START"

\* C23: current_input is the text the caller supplied at every node of the
\* invocation (no node changes it, a user_profile_node resumed with answers
\* included), and so are the text classify_intent_node puts in its prompt
\* and the user entry generate_response_node appends.
C23_InputKept ==
    Invoked =>
        /\ st.current_input = turn.input
        /\ turn.classify_calls >= 1 => turn.classified = turn.input
        /\ pc = "END" => st.messages[Len(st.messages) - 1] = Message("user", turn.input)

\* what current_input holds once user_profile_node has returned
InputAfterProfile ==
    IF turn.user_responses.given
    THEN "Profile setup complete: " \o get(turn.user_responses, "goals", "")
    ELSE turn.input

\* what the code does: user_input_node, classify_intent_node and
\* execute_sql_node leave current_input alone; user_profile_node leaves it
\* alone when it is resumed with no answers and replaces it by
\* "Profile setup complete: " and the goals when it is resumed with
\* answers; that text is what classify_intent_node classifies and what
\* generate_response_node appends as the user entry.
InputIsProfileText ==
    Invoked =>
        /\ st.current_input =
               IF "user_profile" \in Range(turn.trace) THEN InputAfterProfile ELSE turn.input
        /\ turn.classify_calls >= 1 => turn.classified = InputAfterProfile
        /\ pc = "END" =>
               st.messages[Len(st.messages) - 1] = Message("user", InputAfterProfile)

\* a turn resumed with answers ended: its user entry is the profile text
ProfileTextAppended ==
    /\ pc = "END"
    /\ turn.user_responses.given
    /\ turn.input = "show the rows"
    /\ turn.classified = "Profile setup complete: ship it"
    /\ st.messages[Len(st.messages) - 1].content = "Profile setup complete: ship it"

-----------------------------------------------------------------------------
(* The chat sessions: properties *)

\* the last call made a database active
MadeActive ==
    \/ call.op = "switch_database" /\ BeginsWith(result, "Switched to database '")
    \/ call.op = "create_database" /\ BeginsWith(result, "Database '")

\* C17 as stated: the pointer is shared by the sessions, so that after a
\* switch_database or create_database of one session the next query_data
\* of every other session runs on the database that call made active.
C17_SharedPointer ==
    MadeActive => \A o \in Sessions : proc[o] # 0 => Target(o) = current_db

\* C17: each session has the pointer of its own server process: no call of
\* one session changes the database that the next query_data of another
\* session runs on.
C17_PointerPerSession ==
    [][\A o \in Sessions :
          (o # client /\ proc[o] # 0 /\ client' = client) => Target(o)' = Target(o)]_vars

\* a session switched to a database while the other session has another
\* database active
C17_Witness ==
    /\ call.op = "switch_database"
    /\ MadeActive
    /\ \E o \in Sessions :
           /\ o # client
           /\ proc[o] # 0
           /\ Target(o) # None
           /\ Target(o) # current_db

-----------------------------------------------------------------------------
(* The pipeline: the profile pause and failed model calls *)

\* C18: a run paused by the interrupt of user_profile_node does not stay
\* paused forever: with no answers supplied the wait ends.
C18_PauseEnds == (pc = "interrupted") ~> (pc # "interrupted")

\* the fields of TurnFields that a node and the nodes after it write
WrittenFrom(node) ==
    IF node = "generate_response" THEN {"messages"} ELSE TurnFields

\* C19: when llm.invoke raises in a node, the fields that this node and
\* the nodes after it write keep the values they had when the invocation
\* started (no node changed them in it): sql_query, intent, reasoning,
\* sql_result, is_db_updated and messages for user_profile_node and
\* classify_intent_node, messages for generate_response_node, which so
\* appends neither of its two entries.
C19_FailedCallKeepsState ==
    (pc = "failed" /\ turn.cause = "llm") =>
        /\ turn.changed \cap WrittenFrom(turn.failed) = {}
        /\ st.messages = turn.before

\* in the second turn of a session the model call of generate_response_node
\* raised after execute_sql_node had run a query
C19_Witness ==
    /\ pc = "failed"
    /\ turn.cause = "llm"
    /\ turn.failed = "generate_response"
    /\ turn.n = 1
    /\ st.action_taken = "sql_executed"
    /\ Len(st.messages) = 2

\* in the second turn the model call of classify_intent_node raised, the
\* first turn having left a query and its result in the state
C19_WitnessClassify ==
    /\ pc = "failed"
    /\ turn.cause = "llm"
    /\ turn.failed = "classify_intent"
    /\ turn.n = 1
    /\ st.sql_query # ""
    /\ st.is_db_updated

\* once past the pause, a run goes on to generate_response or stops at a
\* node that raised
PastPauseProgress == (pc = "user_input") ~> (pc \in {"generate_response", "failed"})

-----------------------------------------------------------------------------
(* The chat driver: properties *)

\* C20: the entries of the session's list are in the order the messages
\* arrived: every entry appended for message k is before every entry
\* appended for message k+1, also when message k+1 arrives while the run of
\* message k awaits a model call or a tool call.
C20_ArrivalOrder ==
    \A i, j \in 1..Len(chat_messages) :
        i < j => chat_messages[i].of <= chat_messages[j].of

\* the entries after entry p are the tool entries of its tool calls, one
\* for each call, in the order of the calls, and no tool entry more
ToolEntriesFollow(p) ==
    LET ids == chat_messages[p].tool_calls
        n == Len(ids)
    IN  /\ p + n <= Len(chat_messages)
        /\ \A i \in 1..n :
               /\ chat_messages[p + i].role = "tool"
               /\ chat_messages[p + i].tool_call_id = ids[i]
        /\ p + n < Len(chat_messages) => chat_messages[p + n + 1].role # "tool"

\* C27: every assistant entry with tool calls is followed, before any later
\* user or assistant entry, by one tool entry for each of its tool calls,
\* in call order and with the call's id, once the run that appended it is
\* past its loop over the tool calls, also when it left the loop because a
\* tool call or a model call failed.
C27_ToolEntriesFollowCalls ==
    \A p \in 1..Len(chat_messages) :
        (chat_messages[p].tool_calls # <<>> /\ tasks[chat_messages[p].of].at # "tool")
            => ToolEntriesFollow(p)

\* C28: for each message at most two model calls are made, and the tool
\* calls run are tool calls of the first model reply, each once and in the
\* order of the reply: all of them once the run is past its loop, and none
\* of the second reply, whose tool calls are not run.
C28_TwoModelCalls ==
    \A k \in MessageIds :
        /\ tasks[k].llm <= 2
        /\ IsPrefix(tasks[k].executed, tasks[k].asked)
        /\ tasks[k].at \in {"llm2", "done"} => tasks[k].executed = tasks[k].asked

\* a run ended whose second reply asked for a tool call: two model calls
\* were made and the tool calls of the first reply, and only those, were run
C28_Witness ==
    \E k \in MessageIds :
        /\ tasks[k].at = "done"
        /\ tasks[k].llm = 2
        /\ Len(tasks[k].asked) = MaxToolCalls
        /\ tasks[k].executed = tasks[k].asked
        /\ tasks[k].asked2 # <<>>

-----------------------------------------------------------------------------
(* The reducers: properties *)

Called == red.fn # "none"

InList(g, list) == \E i \in 1..Len(list) : list[i] = g

\* the record of updates at place i is the last one of its id
LastWrite(i) ==
    \A j \in 1..Len(red.updates) :
        j > i => red.updates[j].id # red.updates[i].id

\* the record of current at place i was replaced: a later record of current
\* or a record of updates has its id
Replaced(i) ==
    /\ red.current[i].id # NoId
    /\ \/ \E j \in 1..Len(red.current) :
              j > i /\ red.current[j].id = red.current[i].id
       \/ \E j \in 1..Len(red.updates) : red.updates[j].id = red.current[i].id

\* the records with an id are merged by id, last write wins, and the result
\* holds one record for an id
MergedById ==
    (Called /\ ~red.is_none) =>
        /\ \A i \in 1..Len(red.updates) :
               (red.updates[i].id # NoId /\ LastWrite(i))
                   => InList(red.updates[i], red.result)
        /\ \A i \in 1..Len(red.current) :
               (red.current[i].id # NoId /\ ~Replaced(i))
                   => InList(red.current[i], red.result)
        /\ \A i, j \in 1..Len(red.result) :
               red.result[i].id = red.result[j].id => i = j

\* C29: after goals_reducer(current, updates) or plans_reducer(current,
\* updates) returns, the result holds every record of updates (of the
\* records of one id the last one; a record without an id as it is), the
\* result holds every record of current that was not replaced, and the list
\* passed as current is what it was before the call
C29_MergeByIdElseAppend ==
    Called =>
        /\ \A i \in 1..Len(red.updates) :
               (red.updates[i].id = NoId \/ LastWrite(i))
                   => InList(red.updates[i], red.result)
        /\ \A i \in 1..Len(red.current) :
               ~Replaced(i) => InList(red.current[i], red.result)
        /\ red.current_after = red.current

\* a record without an id was passed in updates and is not in the result,
\* and the list passed as current has it at its end
UpdateWithoutIdLost ==
    /\ Called
    /\ \E i \in 1..Len(red.updates) :
           /\ red.updates[i].id = NoId
           /\ ~InList(red.updates[i], red.result)
           /\ Len(red.current_after) > Len(red.current)
           /\ InList(red.updates[i], red.current_after)

\* a record of current without an id is not in the result
CurrentWithoutIdLost ==
    /\ Called
    /\ \E i \in 1..Len(red.current) :
           red.current[i].id = NoId /\ ~InList(red.current[i], red.result)

====
